---- MODULE Spec2Model ----
(***************************************************************************)
(* Model of react-native-dynamic-font-scaling: the scale reader            *)
(* (getNativeFontScale / getFontScaleSync), the scale monitor (the         *)
(* useFontScale hook with its global update counter and its two event      *)
(* subscriptions), the theme deriver (createScaledTheme) and the           *)
(* ScaledThemeProvider that ties them together.                            *)
(*                                                                         *)
(* Numbers.  Every scale factor, bound and cap is held in TENTHS: 8 is     *)
(* 0.8, 20 is 2.0, 35 is 3.5.  Pixel sizes are plain integers.  All base   *)
(* sizes of the theme are even, so baseValue * scale is never an exact     *)
(* half and Math.round over doubles agrees with the exact rounding used    *)
(* here; fontSize * 1.5 is exact in binary and its halves round up, as     *)
(* Math.round does.                                                        *)
(***************************************************************************)
EXTENDS Integers, Sequences, FiniteSets, TLC

(***************************************************************************)
(* Bounds of the model.                                                    *)
(***************************************************************************)
\* reads (calls of updateFontScale) started in one behaviour
MaxReads == 2
\* largest argument (in tenths) given to the pure functions
MaxScale == 40

(***************************************************************************)
(* src/src/hooks/useFontScale.ts: defaults of the options.                 *)
(***************************************************************************)
DefaultMinScale == 8
DefaultMaxScale == 20

(***************************************************************************)
(* Math.round(num / den) for num >= 0, den > 0: halves round up.           *)
(***************************************************************************)
Round(num, den) == (2 * num + den) \div (2 * den)

Min(a, b) == IF a <= b THEN a ELSE b
Max(a, b) == IF a >= b THEN a ELSE b

(***************************************************************************)
(* function clamp(value, min, max): Math.min(Math.max(value, min), max)    *)
(***************************************************************************)
clampNoUpper(value, min, max) == Max(value, min)
clampSwapped(value, min, max) == Max(Min(value, min), max)
clamp(value, min, max) == Min(Max(value, min), max)

(***************************************************************************)
(* theme.ts: the base tables.                                              *)
(***************************************************************************)
baseFontSizes ==
    [xs |-> 10, sm |-> 12, md |-> 14, lg |-> 16, xl |-> 18]
    @@ ("2xl" :> 20) @@ ("3xl" :> 24) @@ ("4xl" :> 30) @@ ("5xl" :> 36)
    @@ ("6xl" :> 48)

baseSpacing ==
    [none |-> 0, xs |-> 4, sm |-> 8, md |-> 12, lg |-> 16, xl |-> 20]
    @@ ("2xl" :> 24) @@ ("3xl" :> 32) @@ ("4xl" :> 40) @@ ("5xl" :> 48)
    @@ ("6xl" :> 64)

\* tenths of a font size: tight 1.2, normal 1.5, relaxed 1.75 (in hundredths
\* it would be 175; relaxed is used by no variant and is left out)
lineHeightMultipliers == [tight |-> 12, normal |-> 15]

\* tenths
scaleCaps ==
    [heading |-> 14, body |-> 20, button |-> 13, caption |-> 18, spacing |-> 15]

(***************************************************************************)
(* function applyScale(baseValue, fontScale, cap):                         *)
(*   Math.round(baseValue * Math.min(fontScale, cap))                      *)
(***************************************************************************)
applyScaleNoCap(baseValue, fontScale, cap) == Round(baseValue * fontScale, 10)
applyScaleDropAtCap(baseValue, fontScale, cap) ==
    IF fontScale > cap THEN baseValue ELSE Round(baseValue * fontScale, 10)
applyScale(baseValue, fontScale, cap) ==
    LET effectiveScale == Min(fontScale, cap)
    IN  Round(baseValue * effectiveScale, 10)

(***************************************************************************)
(* function createScaledFontSizes(fontScale)                               *)
(***************************************************************************)
createScaledFontSizes(fontScale) ==
    [xs |-> applyScale(baseFontSizes.xs, fontScale, scaleCaps.caption),
     sm |-> applyScale(baseFontSizes.sm, fontScale, scaleCaps.caption),
     md |-> applyScale(baseFontSizes.md, fontScale, scaleCaps.body),
     lg |-> applyScale(baseFontSizes.lg, fontScale, scaleCaps.body),
     xl |-> applyScale(baseFontSizes.xl, fontScale, scaleCaps.heading)]
    @@ ("2xl" :> applyScale(baseFontSizes["2xl"], fontScale, scaleCaps.heading))
    @@ ("3xl" :> applyScale(baseFontSizes["3xl"], fontScale, scaleCaps.heading))
    @@ ("4xl" :> applyScale(baseFontSizes["4xl"], fontScale, scaleCaps.heading))
    @@ ("5xl" :> applyScale(baseFontSizes["5xl"], fontScale, scaleCaps.heading))
    @@ ("6xl" :> applyScale(baseFontSizes["6xl"], fontScale, scaleCaps.heading))

(***************************************************************************)
(* function createScaledSpacing(fontScale): the loop over baseSpacing,     *)
(* then the six negative keys.                                             *)
(***************************************************************************)
createScaledSpacingMinOne(fontScale) ==
    LET scaledSpacing ==
            [key \in DOMAIN baseSpacing |->
                Max(1, applyScale(baseSpacing[key], fontScale, scaleCaps.spacing))]
    IN  scaledSpacing
        @@ ("-xs" :> -scaledSpacing.xs)
        @@ ("-sm" :> -scaledSpacing.sm)
        @@ ("-md" :> -scaledSpacing.md)
        @@ ("-lg" :> -scaledSpacing.lg)
        @@ ("-xl" :> -scaledSpacing.xl)
        @@ ("-2xl" :> -scaledSpacing["2xl"])
createScaledSpacingBaseNegatives(fontScale) ==
    LET scaledSpacing ==
            [key \in DOMAIN baseSpacing |->
                IF baseSpacing[key] = 0
                THEN 0
                ELSE applyScale(baseSpacing[key], fontScale, scaleCaps.spacing)]
    IN  scaledSpacing
        @@ ("-xs" :> -baseSpacing.xs)
        @@ ("-sm" :> -baseSpacing.sm)
        @@ ("-md" :> -baseSpacing.md)
        @@ ("-lg" :> -baseSpacing.lg)
        @@ ("-xl" :> -baseSpacing.xl)
        @@ ("-2xl" :> -baseSpacing["2xl"])
createScaledSpacing(fontScale) ==
    LET scaledSpacing ==
            [key \in DOMAIN baseSpacing |->
                IF baseSpacing[key] = 0
                THEN 0
                ELSE applyScale(baseSpacing[key], fontScale, scaleCaps.spacing)]
    IN  scaledSpacing
        @@ ("-xs" :> -scaledSpacing.xs)
        @@ ("-sm" :> -scaledSpacing.sm)
        @@ ("-md" :> -scaledSpacing.md)
        @@ ("-lg" :> -scaledSpacing.lg)
        @@ ("-xl" :> -scaledSpacing.xl)
        @@ ("-2xl" :> -scaledSpacing["2xl"])

(***************************************************************************)
(* One text variant: fontSize and Math.round(fontSize * multiplier).       *)
(***************************************************************************)
TextVariantFloor(fontSize, multiplier) ==
    [fontSize |-> fontSize, lineHeight |-> (fontSize * multiplier) \div 10]
TextVariant(fontSize, multiplier) ==
    [fontSize |-> fontSize, lineHeight |-> Round(fontSize * multiplier, 10)]

createScaledThemeKeyed(fontScale, updateKey) ==
    [spacing |-> createScaledSpacing(fontScale + updateKey),
     textVariants |-> <<>>]

(***************************************************************************)
(* function createScaledTheme(fontScale, updateKey): the spacing and the   *)
(* text variants (colours, radii, z-indices and breakpoints do not depend  *)
(* on the arguments and are left out).  updateKey is not read by the body. *)
(***************************************************************************)
createScaledTheme(fontScale, updateKey) ==
    LET fontSizes == createScaledFontSizes(fontScale)
        spacing   == createScaledSpacing(fontScale)
        tight     == lineHeightMultipliers.tight
        normal    == lineHeightMultipliers.normal
    IN  [spacing |-> spacing,
         textVariants |->
           [defaults      |-> TextVariant(fontSizes.md, normal),
            h1            |-> TextVariant(fontSizes["6xl"], tight),
            h2            |-> TextVariant(fontSizes["5xl"], tight),
            h3            |-> TextVariant(fontSizes["4xl"], tight),
            h4            |-> TextVariant(fontSizes["3xl"], tight),
            h5            |-> TextVariant(fontSizes["2xl"], tight),
            h6            |-> TextVariant(fontSizes.xl, tight),
            body          |-> TextVariant(fontSizes.md, normal),
            bodyLarge     |-> TextVariant(fontSizes.lg, normal),
            bodySmall     |-> TextVariant(fontSizes.sm, normal),
            button        |-> TextVariant(
                applyScale(baseFontSizes.md, fontScale, scaleCaps.button), normal),
            buttonLarge   |-> TextVariant(
                applyScale(baseFontSizes.lg, fontScale, scaleCaps.button), normal),
            buttonSmall   |-> TextVariant(
                applyScale(baseFontSizes.sm, fontScale, scaleCaps.button), normal),
            caption       |-> TextVariant(fontSizes.xs, normal),
            captionMedium |-> TextVariant(fontSizes.sm, normal),
            label         |-> TextVariant(fontSizes.sm, normal),
            labelLarge    |-> TextVariant(fontSizes.md, normal),
            link          |-> TextVariant(fontSizes.md, normal)]]

(***************************************************************************)
(* The platform.                                                           *)
(*   platform     Platform.OS and the methods NativeModules.FontScaleModule*)
(*                offers; fixed for the life of the process                *)
(*   actualScale  the system's accessibility font scale (what the native   *)
(*                module reads)                                            *)
(*   cachedScale  what PixelRatio.getFontScale() returns                   *)
(*   appState     AppState.currentState                                    *)
(* The module.                                                             *)
(*   globalUpdateCount  the module-level counter                           *)
(* One hook instance inside a ScaledThemeProvider.                         *)
(*   mounted            whether an instance is mounted                     *)
(*   config             the options of the mounted instance                *)
(*   state              the useState value (FontScaleResult)               *)
(*   appSubs, dimSubs   subscriptions the instance holds on AppState and   *)
(*                      Dimensions                                         *)
(*   inflight           updateFontScale calls awaiting the native promise; *)
(*                      each holds the bounds its closure captured and     *)
(*                      whether the instance whose setState it holds is    *)
(*                      gone                                               *)
(*   nextId             number of updateFontScale calls made so far        *)
(*   theme              the useMemo value of the provider                  *)
(*   themeCreations     number of '[ThemeProvider] Creating theme' lines   *)
(* Observation.                                                            *)
(*   published          every state handed to the consumers of the mounted *)
(*                      instance, in order                                 *)
(*   call, ret          a direct call of a pure function and its result    *)
(***************************************************************************)
VARIABLES platform, actualScale, cachedScale, appState, globalUpdateCount,
          mounted, config, state, appSubs, dimSubs, inflight, nextId,
          theme, themeCreations, published, call, ret

envVars  == <<platform, actualScale, cachedScale, appState>>
hookVars == <<mounted, config, appSubs, dimSubs, inflight, nextId>>
heapVars == <<globalUpdateCount, state, theme, themeCreations, published>>
pureVars == <<call, ret>>
vars     == <<envVars, hookVars, heapVars, pureVars>>

(***************************************************************************)
(* Value sets.                                                             *)
(***************************************************************************)
\* system font scales the user can set (1.3, 3.5)
ActualScales == {13, 35}
\* values PixelRatio.getFontScale() can hold (0 is its degenerate value)
CachedScales == {0, 10}
AppStateStatus == {"active", "background", "inactive"}
AllPlatforms ==
    [os : {"android", "ios"}, getFontScale : BOOLEAN, getFontScaleSync : BOOLEAN]
\* Android with the module, and iOS (where the module is not consulted);
\* Android without the module reads exactly as iOS does
Platforms ==
    {[os |-> "android", getFontScale |-> TRUE, getFontScaleSync |-> TRUE],
     [os |-> "ios", getFontScale |-> TRUE, getFontScaleSync |-> TRUE]}
\* the default bounds, narrower bounds, and a malformed pair (min > max)
Options(minScale, maxScale, listenToDimensions, listenToAppState) ==
    [minScale |-> minScale, maxScale |-> maxScale,
     listenToDimensions |-> listenToDimensions,
     listenToAppState |-> listenToAppState]
DefaultConfig == Options(DefaultMinScale, DefaultMaxScale, TRUE, TRUE)
\* the defaults, narrower bounds, and a malformed pair (minScale > maxScale);
\* every combination of the two listen flags occurs
Configs ==
    {DefaultConfig,
     Options(DefaultMinScale, DefaultMaxScale, FALSE, FALSE),
     Options(10, 15, TRUE, FALSE),
     Options(20, 8, FALSE, TRUE)}

(***************************************************************************)
(* The options a caller passes: an object holding any of the four fields.  *)
(* Each entry point destructures it with defaults:                         *)
(*   useFontScale         const { minScale = 0.8, maxScale = 2.0,          *)
(*                                listenToDimensions = true,               *)
(*                                listenToAppState = true } = options      *)
(*   ScaledThemeProvider  the same four defaults on its props, which it    *)
(*                        then passes, all four, to useFontScale           *)
(*   getFontScale         const { minScale = 0.8, maxScale = 2.0 }         *)
(***************************************************************************)
OptionFields ==
    {"minScale", "maxScale", "listenToDimensions", "listenToAppState"}
Given(options, fields) == [field \in fields |-> options[field]]
PartialOptions ==
    {Given(cfg, fields) :
        cfg \in {Options(10, 15, FALSE, FALSE), Options(20, 8, FALSE, TRUE)},
        fields \in SUBSET OptionFields}

useFontScaleOptionsNoListen(options) ==
    [minScale |-> IF "minScale" \in DOMAIN options
                  THEN options.minScale ELSE DefaultMinScale,
     maxScale |-> IF "maxScale" \in DOMAIN options
                  THEN options.maxScale ELSE DefaultMaxScale,
     listenToDimensions |-> IF "listenToDimensions" \in DOMAIN options
                            THEN options.listenToDimensions ELSE FALSE,
     listenToAppState |-> IF "listenToAppState" \in DOMAIN options
                          THEN options.listenToAppState ELSE TRUE]
useFontScaleOptions(options) ==
    [minScale |-> IF "minScale" \in DOMAIN options
                  THEN options.minScale ELSE DefaultMinScale,
     maxScale |-> IF "maxScale" \in DOMAIN options
                  THEN options.maxScale ELSE DefaultMaxScale,
     listenToDimensions |-> IF "listenToDimensions" \in DOMAIN options
                            THEN options.listenToDimensions ELSE TRUE,
     listenToAppState |-> IF "listenToAppState" \in DOMAIN options
                          THEN options.listenToAppState ELSE TRUE]

\* the options ScaledThemeProvider hands to useFontScale for its props
ScaledThemeProviderOptions(props) ==
    LET minScale == IF "minScale" \in DOMAIN props THEN props.minScale ELSE 8
        maxScale == IF "maxScale" \in DOMAIN props THEN props.maxScale ELSE 20
        listenToDimensions == IF "listenToDimensions" \in DOMAIN props
                              THEN props.listenToDimensions ELSE TRUE
        listenToAppState == IF "listenToAppState" \in DOMAIN props
                            THEN props.listenToAppState ELSE TRUE
    IN  useFontScaleOptions(
            [minScale |-> minScale, maxScale |-> maxScale,
             listenToDimensions |-> listenToDimensions,
             listenToAppState |-> listenToAppState])

getFontScaleOptions(options) ==
    [minScale |-> IF "minScale" \in DOMAIN options THEN options.minScale ELSE 8,
     maxScale |-> IF "maxScale" \in DOMAIN options THEN options.maxScale ELSE 20]

\* the outcome of a call that can throw (or of a promise that can reject)
Ok(v) == [ok |-> TRUE, val |-> v]
Threw == [ok |-> FALSE, val |-> 0]

NoState == [fontScale |-> 0, fontScaleCorrection |-> <<0, 1>>,
            cachedFontScale |-> 0, updateCount |-> 0]
NoTheme == [spacing |-> <<>>, textVariants |-> <<>>]
NoCall  == [fn |-> "none"]

(***************************************************************************)
(* The scale reader.  live is the outcome of the native accessor,          *)
(* pixelRatio the outcome of PixelRatio.getFontScale().                    *)
(***************************************************************************)
getCachedFontScale(pixelRatio) == pixelRatio

getNativeFontScaleNoCatch(p, live, pixelRatio) ==
    IF p.os = "android" /\ p.getFontScale THEN live ELSE pixelRatio
getNativeFontScale(p, live, pixelRatio) ==
    IF p.os = "android" /\ p.getFontScale
    THEN IF live.ok THEN live ELSE pixelRatio
    ELSE pixelRatio

getFontScaleSync(p, live, pixelRatio) ==
    IF p.os = "android" /\ p.getFontScaleSync
    THEN IF live.ok THEN live ELSE pixelRatio
    ELSE pixelRatio

\* whether updateFontScale suspends on the native promise
UsesLive == platform.os = "android" /\ platform.getFontScale

(***************************************************************************)
(* useFontScale: the FontScaleResult built by the useState initializer and *)
(* by updateFontScale.  fontScaleCorrection is the fraction                *)
(* clampedScale / cachedScale, kept as <<numerator, denominator>>.         *)
(***************************************************************************)
FontScaleResultRaw(actualScale_, cachedScale_, minScale, maxScale, updateCount) ==
    [fontScale |-> clamp(actualScale_, minScale, maxScale),
     fontScaleCorrection |->
         IF cachedScale_ # 0 THEN <<actualScale_, cachedScale_>> ELSE <<1, 1>>,
     cachedFontScale |-> cachedScale_,
     updateCount |-> updateCount]
FontScaleResult(actualScale_, cachedScale_, minScale, maxScale, updateCount) ==
    LET clampedScale == clamp(actualScale_, minScale, maxScale)
        correction   == IF cachedScale_ # 0
                        THEN <<clampedScale, cachedScale_>>
                        ELSE <<1, 1>>
    IN  [fontScale |-> clampedScale,
         fontScaleCorrection |-> correction,
         cachedFontScale |-> cachedScale_,
         updateCount |-> updateCount]

\* globalUpdateCount++
IncrementNone(count) == count
Increment(count) == count + 1

(***************************************************************************)
(* The heap the handlers work on, as one record, so that the steps of one  *)
(* handler can be composed.                                                *)
(***************************************************************************)
Heap ==
    [globalUpdateCount |-> globalUpdateCount, state |-> state, theme |-> theme,
     themeCreations |-> themeCreations, published |-> published]

SetHeap(h) ==
    /\ globalUpdateCount' = h.globalUpdateCount
    /\ state' = h.state
    /\ theme' = h.theme
    /\ themeCreations' = h.themeCreations
    /\ published' = h.published

(***************************************************************************)
(* ScaledThemeProvider: one render with the hook's state being next.       *)
(* useMemo recomputes the theme when [fontScale, updateCount] differ from  *)
(* the previous render's (always on the first render).  The entry added to *)
(* published holds what the consumers are given, the call it came from     *)
(* (id, 0 for the initializer) and the raw reading it was computed from    *)
(* (the 'Actual:' of the console line of updateFontScale).                 *)
(***************************************************************************)
MemoDepsFontScaleOnly(s) == <<s.fontScale>>
MemoDepsNone(s) == <<>>
MemoDeps(s) == <<s.fontScale, s.updateCount>>

Render(h, next, first, id, actual) ==
    LET recompute == first \/ MemoDeps(next) # MemoDeps(h.state)
    IN  [h EXCEPT
            !.state = next,
            !.theme = IF recompute
                      THEN createScaledTheme(next.fontScale, next.updateCount)
                      ELSE @,
            !.themeCreations = IF recompute THEN @ + 1 ELSE @,
            !.published = Append(@, [id |-> id, actual |-> actual,
                                     fontScale |-> next.fontScale,
                                     updateCount |-> next.updateCount])]

(***************************************************************************)
(* updateFontScale after its await: reader is what getNativeFontScale      *)
(* produced, pixelRatio what getCachedFontScale finds.  r is the call: the *)
(* bounds its closure captured and the instance whose setState it holds.   *)
(* setState on an instance that is gone does nothing.  If either read      *)
(* throws, the promise updateFontScale returned rejects (no caller handles *)
(* it) and the heap is left as it was.                                     *)
(***************************************************************************)
updateFontScaleResumeLatestOnly(h, r, reader, pixelRatio) ==
    IF ~reader.ok \/ ~getCachedFontScale(pixelRatio).ok
    THEN h
    ELSE LET count == Increment(h.globalUpdateCount)
             h1    == [h EXCEPT !.globalUpdateCount = count]
             next  == FontScaleResult(reader.val, pixelRatio.val,
                                      r.minScale, r.maxScale, count)
             stale == h.published # <<>>
                      /\ h.published[Len(h.published)].id > r.id
         IN  IF r.unmounted \/ stale
             THEN h1
             ELSE Render(h1, next, FALSE, r.id, reader.val)
updateFontScaleResumeOrphanPublishes(h, r, reader, pixelRatio) ==
    IF ~reader.ok \/ ~getCachedFontScale(pixelRatio).ok
    THEN h
    ELSE LET count == Increment(h.globalUpdateCount)
             h1    == [h EXCEPT !.globalUpdateCount = count]
             next  == FontScaleResult(reader.val, pixelRatio.val,
                                      r.minScale, r.maxScale, count)
         IN  Render(h1, next, FALSE, r.id, reader.val)
updateFontScaleResume(h, r, reader, pixelRatio) ==
    IF ~reader.ok \/ ~getCachedFontScale(pixelRatio).ok
    THEN h
    ELSE LET count == Increment(h.globalUpdateCount)
             h1    == [h EXCEPT !.globalUpdateCount = count]
             next  == FontScaleResult(reader.val, pixelRatio.val,
                                      r.minScale, r.maxScale, count)
         IN  IF r.unmounted
             THEN h1
             ELSE Render(h1, next, FALSE, r.id, reader.val)

NewRead(id, cfg) ==
    [id |-> id, unmounted |-> FALSE,
     minScale |-> cfg.minScale, maxScale |-> cfg.maxScale,
     phase |-> "pending", live |-> Threw]

(***************************************************************************)
(* updateFontScale(), called by the mounted instance with options cfg on   *)
(* heap h: <<inflight', heap'>>.  With a native accessor the call suspends *)
(* on its promise.  Without one getNativeFontScale returns PixelRatio's    *)
(* value at once and the rest runs as a microtask, before any other event. *)
(***************************************************************************)
updateFontScale(h, cfg, pixelRatio) ==
    IF UsesLive
    THEN <<inflight \cup {NewRead(nextId + 1, cfg)}, h>>
    ELSE <<inflight,
           updateFontScaleResume(h, NewRead(nextId + 1, cfg),
               getNativeFontScale(platform, Threw, pixelRatio), pixelRatio)>>

PixelRatio(throws) == IF throws THEN Threw ELSE Ok(cachedScale)

(***************************************************************************)
(* The state after the module is loaded: no instance mounted.              *)
(***************************************************************************)
Init ==
    /\ platform \in Platforms
    /\ actualScale \in ActualScales
    /\ cachedScale \in CachedScales
    /\ appState = "active"
    /\ globalUpdateCount = 0
    /\ mounted = FALSE
    /\ config = DefaultConfig
    /\ state = NoState
    /\ appSubs = 0
    /\ dimSubs = 0
    /\ inflight = {}
    /\ nextId = 0
    /\ theme = NoTheme
    /\ themeCreations = 0
    /\ published = <<>>
    /\ call = NoCall
    /\ ret = 0

(***************************************************************************)
(* The two effects of useFontScale, for options cfg.                       *)
(***************************************************************************)
\* AppState.addEventListener('change', ...) unless the effect returns early
AppStateSubscribe(cfg) == IF cfg.listenToAppState THEN 1 ELSE 0
\* Dimensions.addEventListener('change', ...) unless the effect returns early
DimensionsSubscribeAlways(cfg) == 1
DimensionsSubscribe(cfg) == IF cfg.listenToDimensions THEN 1 ELSE 0
\* the cleanup the effect returned: subscription.remove()
AppStateCleanupNone(cfg) == 0
AppStateCleanup(cfg) == IF cfg.listenToAppState THEN 1 ELSE 0
DimensionsCleanup(cfg) == IF cfg.listenToDimensions THEN 1 ELSE 0

(***************************************************************************)
(* Mount of a ScaledThemeProvider with options cfg: the useState           *)
(* initializer (a synchronous read), the first render, then the effects:   *)
(* the app-state effect subscribes and calls updateFontScale(), the        *)
(* dimension effect subscribes.  A throw of the initializer escapes the    *)
(* render and nothing is mounted.                                          *)
(***************************************************************************)
Mount(cfg, liveThrows, pixelThrows) ==
    /\ ~mounted
    /\ cfg.listenToAppState => nextId < MaxReads
    /\ LET live       == IF liveThrows THEN Threw ELSE Ok(actualScale)
           pixelRatio == PixelRatio(pixelThrows)
           actual     == getFontScaleSync(platform, live, pixelRatio)
           cached     == getCachedFontScale(pixelRatio)
       IN  IF ~actual.ok \/ ~cached.ok
           THEN UNCHANGED <<hookVars, heapVars>>
           ELSE LET initial == FontScaleResult(actual.val, cached.val,
                                   cfg.minScale, cfg.maxScale, globalUpdateCount)
                    h0      == Render(Heap, initial, TRUE, 0, actual.val)
                    res     == IF cfg.listenToAppState
                               THEN updateFontScale(h0, cfg, pixelRatio)
                               ELSE <<inflight, h0>>
                IN  /\ mounted' = TRUE
                    /\ config' = cfg
                    /\ appSubs' = appSubs + AppStateSubscribe(cfg)
                    /\ dimSubs' = dimSubs + DimensionsSubscribe(cfg)
                    /\ inflight' = res[1]
                    /\ nextId' = IF cfg.listenToAppState THEN nextId + 1 ELSE nextId
                    /\ SetHeap(res[2])
    /\ UNCHANGED <<envVars, pureVars>>

(***************************************************************************)
(* Teardown: both cleanups run.  Calls in flight are not cancelled; their   *)
(* setState now belongs to an instance that is gone, so of all such a call *)
(* computes only the increment of globalUpdateCount is ever seen: the      *)
(* bounds and the value it carries are forgotten here.                     *)
(***************************************************************************)
Orphan(r) ==
    [r EXCEPT !.unmounted = TRUE, !.minScale = 0, !.maxScale = 0,
              !.live = IF r.phase = "settled" THEN Ok(0) ELSE r.live]

Unmount ==
    /\ mounted
    /\ mounted' = FALSE
    /\ inflight' = {Orphan(r) : r \in inflight}
    /\ appSubs' = appSubs - AppStateCleanup(config)
    /\ dimSubs' = dimSubs - DimensionsCleanup(config)
    /\ config' = DefaultConfig
    /\ state' = NoState
    /\ theme' = NoTheme
    /\ themeCreations' = 0
    /\ published' = <<>>
    /\ UNCHANGED <<envVars, pureVars, nextId, globalUpdateCount>>

(***************************************************************************)
(* AppState emits 'change' with nextAppState = next.  handleAppStateChange *)
(* runs if the instance is subscribed and calls updateFontScale() only for *)
(* 'active'.                                                               *)
(***************************************************************************)
handleAppStateChangeAnyState(next) == TRUE
handleAppStateChange(next) == next = "active"

AppStateChange(next, pixelThrows) ==
    /\ next # appState
    /\ appState' = next
    /\ IF mounted /\ appSubs > 0 /\ handleAppStateChange(next)
       THEN /\ nextId < MaxReads
            /\ LET res == updateFontScale(Heap, config, PixelRatio(pixelThrows))
               IN  /\ inflight' = res[1]
                   /\ SetHeap(res[2])
            /\ nextId' = nextId + 1
       ELSE UNCHANGED <<inflight, nextId, heapVars>>
    /\ UNCHANGED <<platform, actualScale, cachedScale, pureVars,
                   mounted, config, appSubs, dimSubs>>

(***************************************************************************)
(* Dimensions emits 'change': handleDimensionChange calls                  *)
(* updateFontScale().                                                      *)
(***************************************************************************)
DimensionChange(pixelThrows) ==
    /\ mounted
    /\ dimSubs > 0
    /\ nextId < MaxReads
    /\ LET res == updateFontScale(Heap, config, PixelRatio(pixelThrows))
       IN  /\ inflight' = res[1]
           /\ SetHeap(res[2])
    /\ nextId' = nextId + 1
    /\ UNCHANGED <<envVars, pureVars, mounted, config, appSubs, dimSubs>>

(***************************************************************************)
(* The native side runs FontScaleModule.getFontScale() for the call r: it  *)
(* reads the system's font scale as it is now.                             *)
(***************************************************************************)
NativeExecute(r) ==
    /\ r \in inflight
    /\ r.phase = "pending"
    /\ inflight' = (inflight \ {r}) \cup
           {[r EXCEPT !.phase = "settled",
                      !.live = IF r.unmounted THEN Ok(0) ELSE Ok(actualScale)]}
    /\ UNCHANGED <<envVars, pureVars, heapVars, mounted, config,
                   appSubs, dimSubs, nextId>>

(***************************************************************************)
(* The promise of the call r settles in JavaScript, resolved with the      *)
(* value read or rejected: getNativeFontScale returns (through its catch   *)
(* if the promise rejected) and updateFontScale runs to its end.           *)
(***************************************************************************)
NativeDeliver(r, liveThrows, pixelThrows) ==
    /\ r \in inflight
    /\ r.phase = "settled"
    /\ inflight' = inflight \ {r}
    /\ LET pixelRatio == PixelRatio(pixelThrows)
           live       == IF liveThrows THEN Threw ELSE r.live
       IN  SetHeap(updateFontScaleResume(Heap, r,
               getNativeFontScale(platform, live, pixelRatio), pixelRatio))
    /\ UNCHANGED <<envVars, pureVars, mounted, config, appSubs, dimSubs, nextId>>

(***************************************************************************)
(* The environment: the user changes the system font size; React Native    *)
(* refreshes the value PixelRatio holds.                                   *)
(***************************************************************************)
SystemFontScaleChange(v) ==
    /\ v # actualScale
    /\ actualScale' = v
    /\ UNCHANGED <<platform, cachedScale, appState, hookVars, heapVars, pureVars>>

PixelRatioRefresh(v) ==
    /\ v # cachedScale
    /\ cachedScale' = v
    /\ UNCHANGED <<platform, actualScale, appState, hookVars, heapVars, pureVars>>

(***************************************************************************)
(* The provider is rendered again with other options cfg.  A change of     *)
(* minScale or maxScale makes a new updateFontScale (useCallback), which   *)
(* is a dependency of both effects: an effect whose dependencies changed   *)
(* runs its cleanup and runs again.  The state is not recomputed.          *)
(***************************************************************************)
ConfigChange(cfg, pixelThrows) ==
    /\ mounted
    /\ cfg # config
    /\ LET callbackChanged == cfg.minScale # config.minScale
                              \/ cfg.maxScale # config.maxScale
           appRerun == callbackChanged
                       \/ cfg.listenToAppState # config.listenToAppState
           dimRerun == callbackChanged
                       \/ cfg.listenToDimensions # config.listenToDimensions
           reads    == appRerun /\ cfg.listenToAppState
           res      == IF reads
                       THEN updateFontScale(Heap, cfg, PixelRatio(pixelThrows))
                       ELSE <<inflight, Heap>>
       IN  /\ reads => nextId < MaxReads
           /\ appSubs' = IF appRerun
                         THEN appSubs - AppStateCleanup(config) + AppStateSubscribe(cfg)
                         ELSE appSubs
           /\ dimSubs' = IF dimRerun
                         THEN dimSubs - DimensionsCleanup(config) + DimensionsSubscribe(cfg)
                         ELSE dimSubs
           /\ inflight' = res[1]
           /\ SetHeap(res[2])
           /\ nextId' = IF reads THEN nextId + 1 ELSE nextId
    /\ config' = cfg
    /\ UNCHANGED <<envVars, pureVars, mounted>>

(***************************************************************************)
(* The monitor with the options fixed at mount.                            *)
(***************************************************************************)
Next ==
    \/ \E cfg \in Configs, l \in BOOLEAN, p \in BOOLEAN : Mount(cfg, l, p)
    \/ Unmount
    \/ \E next \in AppStateStatus, p \in BOOLEAN : AppStateChange(next, p)
    \/ \E p \in BOOLEAN : DimensionChange(p)
    \/ \E r \in inflight : NativeExecute(r)
    \/ \E r \in inflight, l \in BOOLEAN, p \in BOOLEAN : NativeDeliver(r, l, p)
    \/ \E v \in ActualScales : SystemFontScaleChange(v)
    \/ \E v \in CachedScales : PixelRatioRefresh(v)

Spec == Init /\ [][Next]_vars

(***************************************************************************)
(* The monitor under the scheduling the platform gives: the native side    *)
(* runs every call it was handed, and every promise that has settled has   *)
(* its continuation run by the JavaScript event loop.                      *)
(***************************************************************************)
\* what every NativeDeliver(r, l, p) step, and no other step, does to inflight
Delivered(r) ==
    /\ r \in inflight
    /\ r.phase = "settled"
    /\ inflight' = inflight \ {r}

Fairness ==
    /\ WF_vars(\E r \in inflight : NativeExecute(r))
    /\ WF_inflight(\E r \in inflight : Delivered(r))

SpecFair == Init /\ [][Next]_vars /\ Fairness

(***************************************************************************)
(* The monitor whose options may change while it is mounted (the system's  *)
(* font scale and PixelRatio's value stay as they were at the start).      *)
(***************************************************************************)
NextReconfig ==
    \/ \E cfg \in Configs, l \in BOOLEAN, p \in BOOLEAN : Mount(cfg, l, p)
    \/ Unmount
    \/ \E cfg \in Configs, p \in BOOLEAN : ConfigChange(cfg, p)
    \/ \E next \in AppStateStatus, p \in BOOLEAN : AppStateChange(next, p)
    \/ \E p \in BOOLEAN : DimensionChange(p)
    \/ \E r \in inflight : NativeExecute(r)
    \/ \E r \in inflight, l \in BOOLEAN, p \in BOOLEAN : NativeDeliver(r, l, p)

SpecReconfig == Init /\ [][NextReconfig]_vars

(***************************************************************************)
(* FontScaleModule.kt.  Both methods evaluate, inside try,                 *)
(*   currentActivity?.resources?.configuration?.fontScale                  *)
(*       ?: reactApplicationContext.resources.configuration.fontScale      *)
(* and answer 1.0 from catch.  activity is the font scale of the current   *)
(* activity's configuration (Undefined when there is no activity), context *)
(* that of the application context, throws whether the evaluation raises   *)
(* an exception.  getFontScale answers through its promise, which it       *)
(* resolves on both paths; getFontScaleSync returns.                       *)
(***************************************************************************)
FontScaleModuleValue(activity, context) ==
    IF activity.defined THEN activity.val ELSE context

FontScaleModule_getFontScaleRejecting(activity, context, throws) ==
    IF throws
    THEN [settled |-> "rejected", value |-> 0]
    ELSE [settled |-> "resolved",
          value |-> FontScaleModuleValue(activity, context)]
FontScaleModule_getFontScale(activity, context, throws) ==
    IF throws
    THEN [settled |-> "resolved", value |-> 10]
    ELSE [settled |-> "resolved",
          value |-> FontScaleModuleValue(activity, context)]

FontScaleModule_getFontScaleSync(activity, context, throws) ==
    IF throws
    THEN [settled |-> "returned", value |-> 10]
    ELSE [settled |-> "returned",
          value |-> FontScaleModuleValue(activity, context)]

(***************************************************************************)
(* async function getFontScale(options): the imperative one-shot read.     *)
(* options is a pair of bounds ({} gives the defaults 0.8 and 2.0).  The   *)
(* call is held in call (its bounds, where it stands, the value the native *)
(* side read for it and what getNativeFontScale returned to it) and what   *)
(* its promise settled with in ret.                                        *)
(***************************************************************************)
OneShotOptions ==
    {[minScale |-> DefaultMinScale, maxScale |-> DefaultMaxScale],
     [minScale |-> 10, maxScale |-> 15]}

\* the body after `await getNativeFontScale()`; reader is what the await gave
getFontScaleResumeUnclamped(reader, pixelRatio, minScale, maxScale) ==
    LET cached == getCachedFontScale(pixelRatio)
    IN  IF ~reader.ok \/ ~cached.ok
        THEN Threw
        ELSE Ok([fontScale |-> reader.val,
                 fontScaleCorrection |->
                     IF cached.val # 0 THEN <<reader.val, cached.val>>
                                       ELSE <<1, 1>>,
                 cachedFontScale |-> cached.val])
getFontScaleResume(reader, pixelRatio, minScale, maxScale) ==
    LET cached == getCachedFontScale(pixelRatio)
    IN  IF ~reader.ok \/ ~cached.ok
        THEN Threw
        ELSE LET actualScale_ == reader.val
                 cachedScale_ == cached.val
                 clampedScale == clamp(actualScale_, minScale, maxScale)
                 correction   == IF cachedScale_ # 0
                                 THEN <<clampedScale, cachedScale_>>
                                 ELSE <<1, 1>>
             IN  Ok([fontScale |-> clampedScale,
                     fontScaleCorrection |-> correction,
                     cachedFontScale |-> cachedScale_])

\* getFontScale(options) is called.  With a native accessor it suspends on
\* the module's promise; without one it runs to its end at once.
GetFontScale(options, pixelThrows) ==
    /\ call = NoCall
    /\ IF UsesLive
       THEN /\ call' = [fn |-> "getFontScale", minScale |-> options.minScale,
                        maxScale |-> options.maxScale, phase |-> "pending",
                        live |-> Threw, reader |-> Threw]
            /\ ret' = ret
       ELSE LET pixelRatio == PixelRatio(pixelThrows)
                reader     == getNativeFontScale(platform, Threw, pixelRatio)
            IN  /\ call' = [fn |-> "getFontScale",
                            minScale |-> options.minScale,
                            maxScale |-> options.maxScale, phase |-> "done",
                            live |-> Threw, reader |-> reader]
                /\ ret' = getFontScaleResume(reader, pixelRatio,
                              options.minScale, options.maxScale)
    /\ UNCHANGED <<envVars, hookVars, heapVars>>

\* the native side runs FontScaleModule.getFontScale() for the one-shot call
GetFontScaleExecute ==
    /\ call.fn = "getFontScale"
    /\ call.phase = "pending"
    /\ call' = [call EXCEPT !.phase = "settled", !.live = Ok(actualScale)]
    /\ UNCHANGED <<envVars, hookVars, heapVars, ret>>

\* the promise settles in JavaScript and getFontScale runs to its end
GetFontScaleDeliver(liveThrows, pixelThrows) ==
    /\ call.fn = "getFontScale"
    /\ call.phase = "settled"
    /\ LET pixelRatio == PixelRatio(pixelThrows)
           live       == IF liveThrows THEN Threw ELSE call.live
           reader     == getNativeFontScale(platform, live, pixelRatio)
       IN  /\ call' = [call EXCEPT !.phase = "done", !.live = Threw,
                                   !.reader = reader]
           /\ ret' = getFontScaleResume(reader, pixelRatio,
                         call.minScale, call.maxScale)
    /\ UNCHANGED <<envVars, hookVars, heapVars>>

(***************************************************************************)
(* The monitor, once mounted and reading on foreground transitions while   *)
(* the user changes the system font size, together with one imperative     *)
(* read made at any moment.                                                *)
(***************************************************************************)
NextOneShot ==
    \/ \E cfg \in Configs, l \in BOOLEAN, p \in BOOLEAN : Mount(cfg, l, p)
    \/ \E next \in AppStateStatus, p \in BOOLEAN : AppStateChange(next, p)
    \/ \E r \in inflight : NativeExecute(r)
    \/ \E r \in inflight, l \in BOOLEAN, p \in BOOLEAN : NativeDeliver(r, l, p)
    \/ \E v \in ActualScales : SystemFontScaleChange(v)
    \/ \E options \in OneShotOptions, p \in BOOLEAN : GetFontScale(options, p)
    \/ GetFontScaleExecute
    \/ \E l \in BOOLEAN, p \in BOOLEAN : GetFontScaleDeliver(l, p)

SpecOneShot == Init /\ [][NextOneShot]_vars

(***************************************************************************)
(* ThemeProvider.tsx: const FontScaleContext = createContext(1), and what  *)
(* useContext(FontScaleContext) gives a consumer: the value of the nearest *)
(* FontScaleContext.Provider (the provider's fontScale, a number), or the  *)
(* default the context was created with when no provider is above it.      *)
(***************************************************************************)
Defined(v) == [defined |-> TRUE, val |-> v]
Undefined == [defined |-> FALSE, val |-> 0]

FontScaleContext == Defined(10)

useContext(insideProvider, provided) ==
    IF insideProvider THEN Defined(provided) ELSE FontScaleContext

(***************************************************************************)
(* function useFontScaleValue(): the value returned and whether            *)
(* console.warn was called.                                                *)
(***************************************************************************)
useFontScaleValue(insideProvider, provided) ==
    LET fontScale == useContext(insideProvider, provided)
    IN  IF ~fontScale.defined
        THEN [value |-> 10, warned |-> TRUE]
        ELSE [value |-> fontScale.val, warned |-> FALSE]

(***************************************************************************)
(* Direct calls of the pure functions, with arguments drawn from bounded   *)
(* sets: call holds the function and its arguments, ret what it returned.  *)
(* One call is made in a behaviour; the monitor stays as it is after the   *)
(* module is loaded.                                                       *)
(***************************************************************************)
Scales == 0 .. MaxScale
BaseValues ==
    {baseFontSizes[k] : k \in DOMAIN baseFontSizes}
    \cup {baseSpacing[k] : k \in DOMAIN baseSpacing} \cup {3, 5}
Caps == {scaleCaps[k] : k \in DOMAIN scaleCaps}
LiveOutcomes == {Ok(v) : v \in ActualScales} \cup {Threw}
PixelRatioOutcomes == {Ok(v) : v \in CachedScales} \cup {Threw}

CallClamp(value, min, max) ==
    /\ call = NoCall
    /\ call' = [fn |-> "clamp", value |-> value, min |-> min, max |-> max]
    /\ ret' = clamp(value, min, max)
    /\ UNCHANGED <<envVars, hookVars, heapVars>>

CallApplyScale(baseValue, fontScale, cap) ==
    /\ call = NoCall
    /\ call' = [fn |-> "applyScale", baseValue |-> baseValue,
                fontScale |-> fontScale, cap |-> cap]
    /\ ret' = applyScale(baseValue, fontScale, cap)
    /\ UNCHANGED <<envVars, hookVars, heapVars>>

CallCreateScaledTheme(fontScale, updateKey) ==
    /\ call = NoCall
    /\ call' = [fn |-> "createScaledTheme", fontScale |-> fontScale,
                updateKey |-> updateKey]
    /\ ret' = [fontSizes |-> createScaledFontSizes(fontScale),
               theme |-> createScaledTheme(fontScale, updateKey)]
    /\ UNCHANGED <<envVars, hookVars, heapVars>>

\* a second call with the same fontScale, after the first has returned
CallCreateScaledThemeAgain(updateKey) ==
    /\ call.fn = "createScaledTheme"
    /\ call' = [fn |-> "createScaledTheme twice", fontScale |-> call.fontScale,
                updateKey |-> call.updateKey, updateKey2 |-> updateKey]
    /\ ret' = [first |-> ret.theme,
               second |-> createScaledTheme(call.fontScale, updateKey)]
    /\ UNCHANGED <<envVars, hookVars, heapVars>>

\* the three entry points are given the same options object (getFontScale
\* takes only the two bounds of it)
CallWithOptions(options) ==
    /\ call = NoCall
    /\ call' = [fn |-> "options", options |-> options]
    /\ ret' = [useFontScale |-> useFontScaleOptions(options),
               ScaledThemeProvider |-> ScaledThemeProviderOptions(options),
               getFontScale |-> getFontScaleOptions(
                   Given(options, DOMAIN options \cap {"minScale", "maxScale"}))]
    /\ UNCHANGED <<envVars, hookVars, heapVars>>

\* a call of a method of the native module
CallFontScaleModule(method, activity, context, throws) ==
    /\ call = NoCall
    /\ call' = [fn |-> "FontScaleModule", method |-> method,
                activity |-> activity, context |-> context, throws |-> throws]
    /\ ret' = IF method = "getFontScale"
              THEN FontScaleModule_getFontScale(activity, context, throws)
              ELSE FontScaleModule_getFontScaleSync(activity, context, throws)
    /\ UNCHANGED <<envVars, hookVars, heapVars>>

CallGetNativeFontScale(p, live, pixelRatio) ==
    /\ call = NoCall
    /\ call' = [fn |-> "getNativeFontScale", platform |-> p, live |-> live,
                pixelRatio |-> pixelRatio]
    /\ ret' = getNativeFontScale(p, live, pixelRatio)
    /\ UNCHANGED <<envVars, hookVars, heapVars>>

CallGetFontScaleSync(p, live, pixelRatio) ==
    /\ call = NoCall
    /\ call' = [fn |-> "getFontScaleSync", platform |-> p, live |-> live,
                pixelRatio |-> pixelRatio]
    /\ ret' = getFontScaleSync(p, live, pixelRatio)
    /\ UNCHANGED <<envVars, hookVars, heapVars>>

CallUseFontScaleValue(insideProvider, provided) ==
    /\ call = NoCall
    /\ call' = [fn |-> "useFontScaleValue", insideProvider |-> insideProvider,
                provided |-> provided]
    /\ ret' = useFontScaleValue(insideProvider, provided)
    /\ UNCHANGED <<envVars, hookVars, heapVars>>

NextPure ==
    \/ /\ call = NoCall
       /\ \E value \in -MaxScale .. MaxScale, min \in Scales, max \in Scales :
             CallClamp(value, min, max)
    \/ /\ call = NoCall
       /\ \E baseValue \in BaseValues, fontScale \in Scales, cap \in Caps :
             CallApplyScale(baseValue, fontScale, cap)
    \/ /\ call = NoCall
       /\ \E fontScale \in Scales, updateKey \in 0 .. 1 :
             CallCreateScaledTheme(fontScale, updateKey)
    \/ /\ call = NoCall
       /\ \E p \in AllPlatforms, live \in LiveOutcomes,
             pixelRatio \in PixelRatioOutcomes :
             CallGetNativeFontScale(p, live, pixelRatio)
    \/ /\ call = NoCall
       /\ \E p \in AllPlatforms, live \in LiveOutcomes,
             pixelRatio \in PixelRatioOutcomes :
             CallGetFontScaleSync(p, live, pixelRatio)
    \/ /\ call = NoCall
       /\ \E insideProvider \in BOOLEAN, provided \in Scales :
             CallUseFontScaleValue(insideProvider, provided)
    \/ /\ call.fn = "createScaledTheme"
       /\ \E updateKey \in 0 .. 1 : CallCreateScaledThemeAgain(updateKey)
    \/ /\ call = NoCall
       /\ \E options \in PartialOptions : CallWithOptions(options)
    \/ /\ call = NoCall
       /\ \E method \in {"getFontScale", "getFontScaleSync"},
             activity \in {Undefined} \cup {Defined(v) : v \in ActualScales},
             context \in ActualScales \cup {10}, throws \in BOOLEAN :
             CallFontScaleModule(method, activity, context, throws)

InitPure ==
    /\ Init
    /\ platform.os = "android"
    /\ actualScale = 13
    /\ cachedScale = 10

SpecPure == InitPure /\ [][NextPure]_vars

(***************************************************************************)
(*                              The claims                                 *)
(***************************************************************************)
Last(q) == q[Len(q)]
WellFormed(cfg) == cfg.minScale <= cfg.maxScale
\* v = Math.round(num / den), said without computing it: v - 1/2 <= num/den < v + 1/2
IsRound(v, num, den) == 2 * den * v - den <= 2 * num /\ 2 * num < 2 * den * v + den
\* e = Math.min(a, b), said without computing it
IsMin(e, a, b) == e <= a /\ e <= b /\ (e = a \/ e = b)

\* C1: with minScale <= maxScale, the fontScale the hook exposes (and the
\* provider puts in FontScaleContext) lies in [minScale, maxScale], at
\* construction and after every trigger and every completed read.
C1_FontScaleWithinBounds ==
    (mounted /\ WellFormed(config)) =>
        /\ config.minScale <= state.fontScale
        /\ state.fontScale <= config.maxScale

\* a read of 3.5 has completed under well-formed bounds and was clamped down
C1_Witness ==
    /\ mounted
    /\ WellFormed(config)
    /\ Len(published) >= 2
    /\ Last(published).id > 0
    /\ Last(published).actual > config.maxScale
    /\ state.fontScale = config.maxScale

\* C2: clamp(s, min, max) lies in [min, max] when min <= max, and is s itself
\* when min <= s <= max.
C2_ClampRange ==
    (call.fn = "clamp" /\ call.min <= call.max) =>
        /\ call.min <= ret
        /\ ret <= call.max
        /\ (call.min <= call.value /\ call.value <= call.max) => ret = call.value

\* clamp was called with a value above a proper range and returned its top
C2_Witness ==
    /\ call.fn = "clamp"
    /\ call.min < call.max
    /\ call.value > call.max
    /\ ret = call.max

\* the cap of each named font size, as the claim lists them (tenths)
C3_FontSizeCap ==
    [xs |-> 18, sm |-> 18, md |-> 20, lg |-> 20, xl |-> 14]
    @@ ("2xl" :> 14) @@ ("3xl" :> 14) @@ ("4xl" :> 14) @@ ("5xl" :> 14)
    @@ ("6xl" :> 14)

\* v is Math.round(base * Math.min(s, cap)) for scale s and cap in tenths
C3_Derived(v, base, s, cap) ==
    \E e \in {s, cap} : IsMin(e, s, cap) /\ IsRound(v, base * e, 10)

\* C3: every derived size is round(baseSize * min(s, cap)) with the cap of its
\* category: caption 1.8 for xs and sm, body 2.0 for md and lg, heading 1.4
\* for xl to 6xl, button 1.3 for the button variants (on sm, md, lg), spacing
\* 1.5 for the spacing keys that are not 0; applyScale(10, 3.0, 1.8) = 18 and
\* applyScale(16, 0.5, 2.0) = 8.
C3_DerivedSizes ==
    /\ call.fn = "applyScale" =>
        /\ C3_Derived(ret, call.baseValue, call.fontScale, call.cap)
        /\ (call.baseValue = 10 /\ call.fontScale = 30 /\ call.cap = 18) => ret = 18
        /\ (call.baseValue = 16 /\ call.fontScale = 5 /\ call.cap = 20) => ret = 8
    /\ call.fn = "createScaledTheme" =>
        /\ \A k \in DOMAIN C3_FontSizeCap :
              C3_Derived(ret.fontSizes[k], baseFontSizes[k], call.fontScale,
                         C3_FontSizeCap[k])
        /\ C3_Derived(ret.theme.textVariants.button.fontSize, 14, call.fontScale, 13)
        /\ C3_Derived(ret.theme.textVariants.buttonLarge.fontSize, 16, call.fontScale, 13)
        /\ C3_Derived(ret.theme.textVariants.buttonSmall.fontSize, 12, call.fontScale, 13)
        /\ \A k \in DOMAIN baseSpacing :
              baseSpacing[k] # 0 =>
                  C3_Derived(ret.theme.spacing[k], baseSpacing[k], call.fontScale, 15)

\* applyScale(10, 3.0, 1.8) was called and returned 18
C3_Witness ==
    /\ call.fn = "applyScale"
    /\ call.baseValue = 10
    /\ call.fontScale = 30
    /\ call.cap = 18
    /\ ret = 18

\* C4: with minScale 0.8 and maxScale 2.0, a reading of 3.5 is published as
\* 2.0, and the theme derived from it has h1 at 67, body at 28, button at 18.
C4_EndToEnd ==
    (/\ mounted
     /\ config.minScale = 8
     /\ config.maxScale = 20
     /\ Last(published).actual = 35) =>
        /\ state.fontScale = 20
        /\ theme.textVariants.h1.fontSize = 67
        /\ theme.textVariants.body.fontSize = 28
        /\ theme.textVariants.button.fontSize = 18

\* the native module answered 3.5 to an updateFontScale call under the defaults
C4_Witness ==
    /\ mounted
    /\ config = DefaultConfig
    /\ platform.os = "android"
    /\ Last(published).id > 0
    /\ Last(published).actual = 35
    /\ state.fontScale = 20
    /\ theme.textVariants.h1.fontSize = 67

\* C5: a call of updateFontScale that runs to its end for a mounted instance
\* always publishes its own clamped reading, whatever was published before: the
\* published fontScale is that of whichever call completed last, and a call
\* triggered earlier can complete later and replace a newer value.
C5_Step ==
    \A r \in inflight :
        (/\ r.phase = "settled"
         /\ ~r.unmounted
         /\ r \notin inflight'
         /\ mounted'
         /\ globalUpdateCount' # globalUpdateCount) =>
            /\ Len(published') = Len(published) + 1
            /\ Last(published').id = r.id
            /\ state'.fontScale = Last(published').fontScale
            /\ state'.fontScale =
                   clamp(Last(published').actual, r.minScale, r.maxScale)

C5_LastCompletionWins == [][C5_Step]_vars

\* the call triggered first completed after the call triggered second and
\* replaced the system's current font scale by the one it had read earlier
C5_Witness ==
    /\ mounted
    /\ Len(published) >= 3
    /\ Last(published).id > 0
    /\ published[Len(published) - 1].id > Last(published).id
    /\ published[Len(published) - 1].actual = actualScale
    /\ Last(published).actual # actualScale
    /\ Last(published).actual \in ActualScales
    /\ Last(published).fontScale # published[Len(published) - 1].fontScale
    /\ state.fontScale = Last(published).fontScale

\* C6: every publish of a completed read carries an updateCount greater than
\* that of every earlier publish and of the initial state, and greater than
\* the counter was before it; no two publishes carry the same updateCount.
C6_Inv ==
    /\ \A i \in 1 .. Len(published) : published[i].updateCount <= globalUpdateCount
    /\ \A i, j \in 1 .. Len(published) :
          (i < j /\ published[j].id > 0) =>
              published[i].updateCount < published[j].updateCount

C6_Step ==
    /\ globalUpdateCount' >= globalUpdateCount
    /\ (mounted' /\ published' # published /\ Last(published').id > 0) =>
          /\ Last(published').updateCount = globalUpdateCount'
          /\ globalUpdateCount' > globalUpdateCount

C6_CounterStrictlyIncreases == []C6_Inv /\ [][C6_Step]_vars

\* two reads were published after the initial state
C6_Witness ==
    /\ mounted
    /\ Len(published) >= 3
    /\ published[2].id > 0
    /\ published[3].id > 0
    /\ published[1].updateCount < published[2].updateCount
    /\ published[2].updateCount < published[3].updateCount

\* C7: every completed re-read changes the published (fontScale, updateCount)
\* pair, and the provider derives the theme anew for every publish, also when
\* the fontScale is the one published before.
C7_EveryPublishRederives ==
    /\ \A i \in 2 .. Len(published) :
          <<published[i].fontScale, published[i].updateCount>>
              # <<published[i - 1].fontScale, published[i - 1].updateCount>>
    /\ mounted => themeCreations = Len(published)

\* a re-read published the fontScale that was already published, and the
\* theme was derived again
C7_Witness ==
    /\ mounted
    /\ Len(published) >= 2
    /\ Last(published).id > 0
    /\ Last(published).fontScale = published[Len(published) - 1].fontScale
    /\ themeCreations = Len(published)

\* C8: a mounted instance holds exactly one AppState subscription iff
\* listenToAppState and exactly one Dimensions subscription iff
\* listenToDimensions, after any mounts, changes of the options and
\* teardowns; after teardown it holds none.
C8_Subscriptions ==
    /\ mounted =>
          /\ appSubs = (IF config.listenToAppState THEN 1 ELSE 0)
          /\ dimSubs = (IF config.listenToDimensions THEN 1 ELSE 0)
    /\ ~mounted => (appSubs = 0 /\ dimSubs = 0)

\* the options were changed while a call made under the earlier bounds is in
\* flight, and the instance now listens to Dimensions alone
C8_Witness ==
    /\ mounted
    /\ \E r \in inflight : ~r.unmounted /\ r.minScale # config.minScale
    /\ ~config.listenToAppState
    /\ config.listenToDimensions
    /\ appSubs = 0
    /\ dimSubs = 1

\* whether the reader that was called has a live accessor on platform p
C9_LiveAvailable ==
    /\ call.platform.os = "android"
    /\ IF call.fn = "getNativeFontScale"
       THEN call.platform.getFontScale
       ELSE call.platform.getFontScaleSync

\* C9: when the live accessor throws or rejects, or there is none (not
\* Android, or the method is absent), each reader returns what
\* PixelRatio.getFontScale() returns.
C9_FallbackToCached ==
    (/\ call.fn \in {"getNativeFontScale", "getFontScaleSync"}
     /\ ~C9_LiveAvailable \/ ~call.live.ok
     /\ call.pixelRatio.ok) =>
        ret = call.pixelRatio

\* the asynchronous reader was called on Android, the module's promise
\* rejected, and the reader returned PixelRatio's value
C9_Witness ==
    /\ call.fn = "getNativeFontScale"
    /\ C9_LiveAvailable
    /\ ~call.live.ok
    /\ call.pixelRatio.ok
    /\ ret = Ok(call.pixelRatio.val)

\* C10: when the live read and the cached read both throw, the reader returns
\* exactly 1.0 and no error reaches the caller.
C10_TotalFailureReturnsOne ==
    (/\ call.fn \in {"getNativeFontScale", "getFontScaleSync"}
     /\ C9_LiveAvailable
     /\ ~call.live.ok
     /\ ~call.pixelRatio.ok) =>
        ret = Ok(10)

\* C11: a consumer that calls useFontScaleValue with no ScaledThemeProvider
\* above it is detected: a warning is logged and the value returned is 1.0.
C11_OutsideProviderWarns ==
    (call.fn = "useFontScaleValue" /\ ~call.insideProvider)
        => (ret.warned /\ ret.value = 10)

\* C12: every derived size is non-decreasing in the scale factor (s1 <= s2
\* implies derive(b, s1, c) <= derive(b, s2, c)) and is round(b * c) for every
\* scale factor at or above the cap c of its category.
C12_MonotoneThenConstant ==
    /\ call.fn = "applyScale" =>
          /\ \A s2 \in Scales :
                call.fontScale <= s2 =>
                    ret <= applyScale(call.baseValue, s2, call.cap)
          /\ call.fontScale >= call.cap =>
                ret = Round(call.baseValue * call.cap, 10)
    /\ call.fn = "createScaledTheme" =>
          \A key \in DOMAIN baseFontSizes, s2 \in Scales :
              call.fontScale <= s2 =>
                  ret.fontSizes[key] <= createScaledFontSizes(s2)[key]

\* applyScale(16, s, 2.0) was called with s above the cap and returned 32
C12_Witness ==
    /\ call.fn = "applyScale"
    /\ call.baseValue = 16
    /\ call.cap = 20
    /\ call.fontScale > call.cap
    /\ ret = 32

\* C13: every text variant of the derived theme has
\* lineHeight = round(fontSize * m), m being 1.2 for h1..h6 and 1.5 for every
\* other variant and fontSize the already rounded size; so lineHeight is at
\* least fontSize.
C13_Headings == {"h1", "h2", "h3", "h4", "h5", "h6"}
C13_LineHeight ==
    call.fn = "createScaledTheme" =>
        \A v \in DOMAIN ret.theme.textVariants :
            LET variant == ret.theme.textVariants[v]
                m == IF v \in C13_Headings THEN 12 ELSE 15
            IN  /\ 20 * variant.lineHeight <= 2 * variant.fontSize * m + 10
                /\ 2 * variant.fontSize * m + 10 < 20 * (variant.lineHeight + 1)
                /\ variant.lineHeight >= variant.fontSize

\* the theme was derived for 1.3: caption is 13 with line height 20 (19.5
\* rounded), h1 is 62 with line height 74 (74.4 rounded)
C13_Witness ==
    /\ call.fn = "createScaledTheme"
    /\ call.fontScale = 13
    /\ ret.theme.textVariants.caption = [fontSize |-> 13, lineHeight |-> 20]
    /\ ret.theme.textVariants.h1 = [fontSize |-> 62, lineHeight |-> 74]

\* C14: the spacing key whose base value is 0 ('none') derives to 0 for every
\* scale factor, the bounds minScale and maxScale included.
C14_ZeroSpacing ==
    call.fn = "createScaledTheme" =>
        \A key \in DOMAIN baseSpacing :
            baseSpacing[key] = 0 => ret.theme.spacing[key] = 0

\* the theme was derived for the default maxScale (or minScale): 'none' is 0
\* while the other keys are scaled ('md' is 18 at 2.0 and 10 at 0.8)
C14_Witness ==
    /\ call.fn = "createScaledTheme"
    /\ call.fontScale \in {DefaultMinScale, DefaultMaxScale}
    /\ baseSpacing.none = 0
    /\ ret.theme.spacing.none = 0
    /\ ret.theme.spacing.md \in {10, 18}

\* C15: for every scale factor, each negative spacing key (-xs, -sm, -md, -lg,
\* -xl, -2xl) derives to exactly the negation of the derived (scaled and
\* rounded) value of its positive counterpart.
C15_NegativeKeys ==
    {<<"-xs", "xs">>, <<"-sm", "sm">>, <<"-md", "md">>, <<"-lg", "lg">>,
     <<"-xl", "xl">>, <<"-2xl", "2xl">>}
C15_NegativeSpacing ==
    call.fn = "createScaledTheme" =>
        /\ \A pair \in C15_NegativeKeys :
              /\ pair[1] \in DOMAIN ret.theme.spacing
              /\ ret.theme.spacing[pair[1]] = -ret.theme.spacing[pair[2]]
              /\ ret.theme.spacing[pair[2]] =
                    applyScale(baseSpacing[pair[2]], call.fontScale,
                               scaleCaps.spacing)
        /\ DOMAIN ret.theme.spacing =
              DOMAIN baseSpacing \cup {pair[1] : pair \in C15_NegativeKeys}

\* the theme was derived for 1.3: 'md' is 16 (15.6 rounded) and '-md' is -16
C15_Witness ==
    /\ call.fn = "createScaledTheme"
    /\ call.fontScale = 13
    /\ ret.theme.spacing.md = 16
    /\ ret.theme.spacing["-md"] = -16

C17_MalformedBoundsPublishMax ==
    (mounted /\ config.minScale > config.maxScale) =>
        /\ state.fontScale = config.maxScale
        /\ \A i \in DOMAIN published :
              published[i].fontScale = config.maxScale

\* under bounds 2.0 > 0.8 two different readings were published, one at
\* construction and one by a completed read, both as 0.8
C17_Witness ==
    /\ mounted
    /\ config.minScale > config.maxScale
    /\ Len(published) >= 2
    /\ published[1].actual # Last(published).actual
    /\ Last(published).id > 0
    /\ Last(published).fontScale = config.maxScale

\* C18: body text is capped at 2.0: for every scale factor the variants body,
\* bodyLarge and bodySmall have fontSize = round(baseSize * min(scale, 2.0))
\* for their base sizes 14, 16 and 12.
C18_BodyCappedAtTwo ==
    call.fn = "createScaledTheme" =>
        LET effectiveScale == Min(call.fontScale, 20)
            variants == ret.theme.textVariants
        IN  /\ variants.body.fontSize = Round(14 * effectiveScale, 10)
            /\ variants.bodyLarge.fontSize = Round(16 * effectiveScale, 10)
            /\ variants.bodySmall.fontSize = Round(12 * effectiveScale, 10)

\* (baseFontSize * correction) * cachedScale = baseFontSize * target, the
\* correction being the fraction <<numerator, denominator>>; 1 when the cached
\* scale is 0
C19_Compensates(result, target) ==
    IF result.cachedFontScale # 0
    THEN \A baseFontSize \in BaseValues :
             baseFontSize * result.fontScaleCorrection[1] * result.cachedFontScale
                 = baseFontSize * target * result.fontScaleCorrection[2]
    ELSE result.fontScaleCorrection = <<1, 1>>

C19_OneShotDone ==
    call.fn = "getFontScale" /\ call.phase = "done" /\ ret.ok

C20_Inv ==
    C19_OneShotDone =>
        /\ ret.val.fontScale =
              FontScaleResult(call.reader.val, ret.val.cachedFontScale,
                              call.minScale, call.maxScale, 0).fontScale
        /\ (/\ mounted
            /\ config.minScale = call.minScale
            /\ config.maxScale = call.maxScale
            /\ Last(published).actual = call.reader.val) =>
                ret.val.fontScale = state.fontScale

C20_Step ==
    call' # call =>
        UNCHANGED <<globalUpdateCount, state, published, theme, themeCreations,
                    mounted, config, appSubs, dimSubs, inflight, nextId>>

C20_OneShotAgreesAndIsFrameFree == []C20_Inv /\ [][C20_Step]_vars

\* a one-shot read of 3.5 under the bounds of the mounted monitor returned
\* the monitor's published 2.0, after the monitor had completed a read and
\* while it held its subscription
C20_Witness ==
    /\ C19_OneShotDone
    /\ mounted
    /\ config.minScale = call.minScale
    /\ config.maxScale = call.maxScale
    /\ Last(published).id > 0
    /\ Last(published).actual = call.reader.val
    /\ call.reader.val > call.maxScale
    /\ ret.val.fontScale = state.fontScale
    /\ globalUpdateCount >= 1
    /\ appSubs = 1

\* C21: every option is optional and an omitted one takes its default
\* (minScale 0.8, maxScale 2.0, listenToDimensions true, listenToAppState
\* true) while a given one is kept; useFontScale, ScaledThemeProvider and,
\* for the two bounds, getFontScale resolve the same options alike, so no
\* options at all give the bounds [0.8, 2.0] and both listeners.
C21_Defaults ==
    [minScale |-> 8, maxScale |-> 20,
     listenToDimensions |-> TRUE, listenToAppState |-> TRUE]
C21_OptionDefaults ==
    call.fn = "options" =>
        /\ \A field \in OptionFields :
              ret.useFontScale[field] =
                  IF field \in DOMAIN call.options
                  THEN call.options[field] ELSE C21_Defaults[field]
        /\ ret.ScaledThemeProvider = ret.useFontScale
        /\ ret.getFontScale.minScale = ret.useFontScale.minScale
        /\ ret.getFontScale.maxScale = ret.useFontScale.maxScale
        /\ DOMAIN call.options = {} =>
              /\ ret.useFontScale = DefaultConfig
              /\ ret.useFontScale = Options(8, 20, TRUE, TRUE)

\* the three entry points were given no options at all
C21_Witness ==
    /\ call.fn = "options"
    /\ DOMAIN call.options = {}
    /\ ret.ScaledThemeProvider = Options(8, 20, TRUE, TRUE)
    /\ ret.getFontScale = [minScale |-> 8, maxScale |-> 20]

\* C22: the native module never fails its caller: getFontScale always
\* resolves its promise and getFontScaleSync always returns; the value is the
\* activity configuration's font scale when there is an activity, the
\* application context's otherwise, and 1.0 when reading throws.
C22_NativeModuleNeverFails ==
    call.fn = "FontScaleModule" =>
        /\ ret.settled =
              IF call.method = "getFontScale" THEN "resolved" ELSE "returned"
        /\ call.throws => ret.value = 10
        /\ (~call.throws /\ call.activity.defined) =>
              ret.value = call.activity.val
        /\ (~call.throws /\ ~call.activity.defined) =>
              ret.value = call.context

\* getFontScale was called while reading threw and resolved with 1.0
C22_Witness ==
    /\ call.fn = "FontScaleModule"
    /\ call.method = "getFontScale"
    /\ call.throws
    /\ ret = [settled |-> "resolved", value |-> 10]

\* the read with identity i is in flight
C23_InFlight(i) == \E r \in inflight : r.id = i
\* publishes of completed reads held in q
C23_Publishes(q) == Cardinality({k \in DOMAIN q : q[k].id > 0})
\* this step starts a read
C23_Starts == nextId' = nextId + 1
\* this step completes a read: a settled promise is delivered, or a read
\* that needs no native call runs to its end within the step that starts it
C23_Delivers == Cardinality(inflight') < Cardinality(inflight)
C23_Completes ==
    \/ C23_Delivers
    \/ C23_Starts /\ Cardinality(inflight') = Cardinality(inflight)
\* a step that tears nothing down (teardown empties the observation)
C23_Stays == mounted' = mounted
\* a trigger reaches an enabled handler and starts exactly one read; no step
\* starts more than one
C23_TriggerStartsOneRead ==
    /\ nextId' \in {nextId, nextId + 1}
    /\ (/\ mounted /\ mounted'
        /\ appSubs > 0
        /\ appState # "active" /\ appState' = "active") => C23_Starts

\* C23 as stated: each trigger that reaches an enabled handler starts exactly
\* one read; each read that completes publishes exactly once and adds exactly
\* one to the global counter, so when all reads have completed the counter
\* has grown by the number of reads; under fairness every read is eventually
\* followed by its publish and the monitor returns to idle.
C23_StepAsStated ==
    /\ C23_TriggerStartsOneRead
    /\ C23_Completes =>
          /\ globalUpdateCount' = globalUpdateCount + 1
          /\ C23_Stays =>
                C23_Publishes(published') = C23_Publishes(published) + 1
    /\ ~C23_Completes => globalUpdateCount' = globalUpdateCount
C23_StepAmended ==
    /\ C23_TriggerStartsOneRead
    /\ C23_Completes =>
          LET dc == globalUpdateCount' - globalUpdateCount
              dp == C23_Publishes(published') - C23_Publishes(published)
              orphan == \E r \in inflight : r \notin inflight' /\ r.unmounted
          IN  /\ dc \in {0, 1}
              /\ dp \in {0, 1}
              /\ dp = 1 => dc = 1
              /\ (dc = 1 /\ ~orphan) => dp = 1
              /\ orphan => dp = 0
    /\ ~C23_Completes =>
          /\ globalUpdateCount' = globalUpdateCount
          /\ C23_Stays => C23_Publishes(published') = C23_Publishes(published)
C24_Step ==
    (appState' # appState /\ appState' # "active") =>
        UNCHANGED <<nextId, inflight, state, published, globalUpdateCount,
                    theme, themeCreations>>
C24_OnlyActiveRereads == [][C24_Step]_vars

\* the application went to the background under a mounted monitor that
\* listens to app-state changes and has published a completed read; no read
\* is in flight
C24_Witness ==
    /\ mounted
    /\ config.listenToAppState
    /\ appSubs = 1
    /\ appState = "background"
    /\ inflight = {}
    /\ nextId = 1
    /\ Len(published) = 2
    /\ state.updateCount = globalUpdateCount

\* C25: the value exposed at construction is clamp(synchronous read,
\* minScale, maxScale) with updateCount equal to the global counter as it is
\* (construction adds nothing to it); a re-read is started at mount only when
\* listenToAppState is enabled; with listenToAppState and listenToDimensions
\* both disabled no read is made after construction and the published state
\* never changes.
C25_Inv ==
    mounted =>
        /\ published[1].id = 0
        /\ published[1].fontScale =
              clamp(published[1].actual, config.minScale, config.maxScale)
C25_Step ==
    /\ (~mounted /\ mounted') =>
          /\ published'[1].id = 0
          /\ published'[1].updateCount = globalUpdateCount
          /\ nextId' = IF config'.listenToAppState THEN nextId + 1 ELSE nextId
          /\ globalUpdateCount' = globalUpdateCount + (Len(published') - 1)
          /\ ~config'.listenToAppState =>
                /\ Len(published') = 1
                /\ inflight' = inflight
                /\ state'.updateCount = globalUpdateCount'
    /\ (/\ mounted /\ mounted'
        /\ ~config.listenToAppState
        /\ ~config.listenToDimensions) =>
          UNCHANGED <<state, published, nextId, theme, themeCreations>>
C25_Construction == []C25_Inv /\ [][C25_Step]_vars

\* an instance with both listeners disabled was mounted after an earlier
\* instance's read had completed: it shows the initial state, carrying the
\* counter as it was, while the application has left the foreground
C25_Witness ==
    /\ mounted
    /\ ~config.listenToAppState
    /\ ~config.listenToDimensions
    /\ Len(published) = 1
    /\ globalUpdateCount >= 1
    /\ state.updateCount = globalUpdateCount
    /\ appState = "background"
    /\ appSubs = 0
    /\ dimSubs = 0

\* C26: in every state the provider exposes, the theme is
\* createScaledTheme(fontScale) for the very fontScale it puts in
\* FontScaleContext: after any sequence of publishes the tokens are never
\* stale or derived from another value, and they are replaced as a whole.
C26_ThemeMatchesPublishedScale ==
    mounted =>
        /\ state.fontScale = Last(published).fontScale
        /\ useContext(TRUE, state.fontScale) = Defined(Last(published).fontScale)
        /\ theme.spacing = createScaledSpacing(Last(published).fontScale)
        /\ theme.textVariants =
              createScaledTheme(Last(published).fontScale,
                                Last(published).updateCount).textVariants
        /\ DOMAIN theme = {"spacing", "textVariants"}

\* three states were published, the last with another fontScale than the
\* one before, and the theme is the one derived from the last
C26_Witness ==
    /\ mounted
    /\ Len(published) = 3
    /\ published[2].fontScale # published[3].fontScale
    /\ themeCreations = 3
    /\ theme.textVariants.body.fontSize =
          applyScale(baseFontSizes.md, published[3].fontScale, scaleCaps.body)
    /\ theme.textVariants.body.fontSize #
          applyScale(baseFontSizes.md, published[2].fontScale, scaleCaps.body)

\* C27: globalUpdateCount belongs to the module, not to an instance.  A read
\* that completes for an instance already torn down publishes nothing and
\* moves the counter by at most its one increment; whatever a read
\* publishes carries the module's counter, increments of other instances'
\* reads included; an instance mounts with updateCount equal to the counter
\* at that moment, which never exceeds the number of reads completed so far.
C27_OrphanCompletes ==
    \E r \in inflight : r.unmounted /\ inflight' = inflight \ {r}

C27_Step ==
    /\ C27_OrphanCompletes =>
          /\ globalUpdateCount' \in {globalUpdateCount, globalUpdateCount + 1}
          /\ UNCHANGED <<mounted, state, published, theme>>
    /\ (mounted /\ mounted' /\ Len(published') = Len(published) + 1) =>
          /\ globalUpdateCount' = globalUpdateCount + 1
          /\ Last(published').updateCount = globalUpdateCount'
    /\ (~mounted /\ mounted') =>
          /\ published'[1].updateCount = globalUpdateCount
          /\ state'.updateCount >= globalUpdateCount

C27_Inv ==
    /\ globalUpdateCount <= nextId - Cardinality(inflight)
    /\ mounted => state.updateCount <= globalUpdateCount

C27_ProcessWideCounter == []C27_Inv /\ [][C27_Step]_vars

\* an instance that mounted with updateCount 1 and has published nothing
\* since sees the counter at 2: the second increment was made by a read of
\* the instance before it, completed after that instance was torn down
C27_Witness ==
    /\ mounted
    /\ Len(published) = 1
    /\ published[1].updateCount = 1
    /\ globalUpdateCount = 2
    /\ inflight = {}

\* C28 (as stated): for every scale factor from 0.8 to 2.0 the derived font
\* sizes keep the order of the base sizes across categories,
\* xs <= sm <= md <= lg <= xl <= 2xl <= 3xl <= 4xl <= 5xl <= 6xl.
C28_Order == <<"xs", "sm", "md", "lg", "xl", "2xl", "3xl", "4xl", "5xl", "6xl">>

C28_Ordered(f, from, to) ==
    \A i \in from .. (to - 1) : f[C28_Order[i]] <= f[C28_Order[i + 1]]

C28_OrderKeptInDefaultRange ==
    (call.fn = "createScaledTheme"
       /\ call.fontScale \in DefaultMinScale .. DefaultMaxScale) =>
        C28_Ordered(ret.fontSizes, 1, 10)

\* C28 (amended): for every scale factor the order is kept inside each
\* category (xs <= sm; md <= lg; xl <= ... <= 6xl) and sm <= md; the whole
\* chain is kept for scale factors from 0.8 to 1.5; from 1.6 to 2.0 the
\* body sizes pass the heading sizes: lg > xl, and at 2.0 md > xl too.
C28_OrderKeptWithinCategories ==
    call.fn = "createScaledTheme" =>
        LET f == ret.fontSizes
            s == call.fontScale
        IN  /\ f = createScaledFontSizes(s)
            /\ C28_Ordered(f, 1, 4)
            /\ C28_Ordered(f, 5, 10)
            /\ s \in DefaultMinScale .. 15 => C28_Ordered(f, 1, 10)
            /\ s \in 16 .. DefaultMaxScale => f.lg > f.xl
            /\ s = DefaultMaxScale => f.md > f.xl /\ f.lg > f["2xl"]

\* the theme was derived at 2.0: lg is 32, above xl (25) and 2xl (28)
C28_Witness ==
    /\ call.fn = "createScaledTheme"
    /\ call.fontScale = DefaultMaxScale
    /\ ret.fontSizes.lg = 32
    /\ ret.fontSizes.xl = 25
    /\ ret.fontSizes["2xl"] = 28

(***************************************************************************)
(* The variant of useFontScale that returns a number.  Its only reader is  *)
(* PixelRatio.getFontScale(), its state is the clamped scale (kept here in *)
(* the fontScale field of state), and it has no counter.  inflight holds   *)
(* the callbacks handed to setTimeout that have not run yet: "scheduled"   *)
(* until their 100 ms have passed, then "due".  call and ret record the    *)
(* last execution of refreshFontScale: what started it, for which timer,   *)
(* whether its instance was already torn down, and the scale it computed.  *)
(***************************************************************************)
NumberState(scale) == [NoState EXCEPT !.fontScale = scale]

\* the callback of setTimeout(refreshFontScale, 100): refreshFontScale
\* closes over the bounds of the render that made it
NewTimer(id, cfg) ==
    [id |-> id, unmounted |-> FALSE,
     minScale |-> cfg.minScale, maxScale |-> cfg.maxScale,
     phase |-> "scheduled"]

setTimeoutDropped(timers, callback) == timers
setTimeout(timers, callback) == timers \cup {callback}

\* refreshFontScale: the scale it hands to setFontScale
refreshFontScale(minScale, maxScale, pixelRatio) ==
    IF pixelRatio.ok THEN Ok(clamp(pixelRatio.val, minScale, maxScale))
                     ELSE Threw

\* setFontScale(newScale): nothing when the instance is gone
setFontScale(unmounted, newScale) ==
    IF unmounted \/ ~newScale.ok THEN state ELSE NumberState(newScale.val)

\* first render and the two effects
NumberMount(cfg, pixelThrows) ==
    /\ ~mounted
    /\ LET scale == refreshFontScale(cfg.minScale, cfg.maxScale,
                                     PixelRatio(pixelThrows))
       IN  IF ~scale.ok
           THEN UNCHANGED <<mounted, config, appSubs, dimSubs, state>>
           ELSE /\ mounted' = TRUE
                /\ config' = cfg
                /\ appSubs' = appSubs + AppStateSubscribe(cfg)
                /\ dimSubs' = dimSubs + DimensionsSubscribe(cfg)
                /\ state' = NumberState(scale.val)
    /\ UNCHANGED <<envVars, pureVars, inflight, nextId,
                   globalUpdateCount, theme, themeCreations, published>>

\* the cleanups: subscription.remove() twice, and nothing for the timers
NumberUnmount ==
    /\ mounted
    /\ mounted' = FALSE
    /\ appSubs' = appSubs - AppStateCleanup(config)
    /\ dimSubs' = dimSubs - DimensionsCleanup(config)
    /\ inflight' = {[t EXCEPT !.unmounted = TRUE] : t \in inflight}
    /\ config' = DefaultConfig
    /\ state' = NoState
    /\ UNCHANGED <<envVars, pureVars, nextId,
                   globalUpdateCount, theme, themeCreations, published>>

\* AppState emits 'change': for 'active' the handler only sets the timer
NumberAppStateChange(next) ==
    /\ next # appState
    /\ appState' = next
    /\ IF mounted /\ appSubs > 0 /\ handleAppStateChange(next)
       THEN /\ nextId < MaxReads
            /\ inflight' = setTimeout(inflight, NewTimer(nextId + 1, config))
            /\ nextId' = nextId + 1
       ELSE UNCHANGED <<inflight, nextId>>
    /\ UNCHANGED <<platform, actualScale, cachedScale, pureVars, heapVars,
                   mounted, config, appSubs, dimSubs>>

\* Dimensions emits 'change': handleDimensionChange runs refreshFontScale
NumberDimensionChange(pixelThrows) ==
    /\ mounted
    /\ dimSubs > 0
    /\ LET newScale == refreshFontScale(config.minScale, config.maxScale,
                                        PixelRatio(pixelThrows))
       IN  /\ state' = setFontScale(FALSE, newScale)
           /\ call' = [fn |-> "refreshFontScale", via |-> "dimensions",
                       id |-> 0, unmounted |-> FALSE]
           /\ ret' = newScale
    /\ UNCHANGED <<envVars, hookVars,
                   globalUpdateCount, theme, themeCreations, published>>

\* 100 ms have passed since timer t was set; timers of one delay come due
\* in the order they were set
TimerElapse(t) ==
    /\ t \in inflight
    /\ t.phase = "scheduled"
    /\ \A u \in inflight : u.id < t.id => u.phase = "due"
    /\ inflight' = (inflight \ {t}) \cup {[t EXCEPT !.phase = "due"]}
    /\ UNCHANGED <<envVars, pureVars, heapVars,
                   mounted, config, appSubs, dimSubs, nextId>>

\* the event loop runs the callback of timer t
TimerFire(t, pixelThrows) ==
    /\ t \in inflight
    /\ t.phase = "due"
    /\ \A u \in inflight : u.id >= t.id
    /\ inflight' = inflight \ {t}
    /\ LET newScale == refreshFontScale(t.minScale, t.maxScale,
                                        PixelRatio(pixelThrows))
       IN  /\ state' = setFontScale(t.unmounted, newScale)
           /\ call' = [fn |-> "refreshFontScale", via |-> "timer",
                       id |-> t.id, unmounted |-> t.unmounted]
           /\ ret' = newScale
    /\ UNCHANGED <<envVars, mounted, config, appSubs, dimSubs, nextId,
                   globalUpdateCount, theme, themeCreations, published>>

NextNumber ==
    \/ \E cfg \in Configs, p \in BOOLEAN : NumberMount(cfg, p)
    \/ NumberUnmount
    \/ \E next \in AppStateStatus : NumberAppStateChange(next)
    \/ \E p \in BOOLEAN : NumberDimensionChange(p)
    \/ \E t \in inflight : TimerElapse(t)
    \/ \E t \in inflight, p \in BOOLEAN : TimerFire(t, p)
    \/ \E v \in CachedScales : PixelRatioRefresh(v)

SpecNumber == Init /\ [][NextNumber]_vars

\* C29: in the variant that returns a number, a transition to 'active' of
\* a subscribed instance reads nothing in that step and sets one timer; the
\* re-read runs only when that timer has come due, 100 ms later; a
\* dimension change re-reads in the step of the event; teardown removes both
\* subscriptions and leaves every pending timer in place, and a timer of a
\* torn-down instance still runs refreshFontScale, publishing nothing.
C29_TimerIds(timers) == {t.id : t \in timers}

C29_Step ==
    /\ (mounted /\ appSubs > 0 /\ appState # "active" /\ appState' = "active") =>
          /\ UNCHANGED <<state, call, ret>>
          /\ \E t \in inflight' :
                /\ t \notin inflight
                /\ t.phase = "scheduled"
                /\ ~t.unmounted
                /\ inflight' = inflight \cup {t}
    /\ (call' # call \/ ret' # ret) =>
          \/ /\ call'.via = "timer"
             /\ \E t \in inflight :
                   /\ t.phase = "due"
                   /\ t.id = call'.id
                   /\ inflight' = inflight \ {t}
                   /\ call'.unmounted = t.unmounted
                   /\ t.unmounted => state' = state
          \/ /\ call'.via = "dimensions"
             /\ mounted /\ dimSubs > 0
             /\ UNCHANGED inflight
             /\ ret'.ok => state'.fontScale = ret'.val
             /\ ret'.ok => ret'.val = clamp(cachedScale, config.minScale,
                                            config.maxScale)
    /\ (mounted /\ ~mounted') =>
          /\ appSubs' = 0
          /\ dimSubs' = 0
          /\ C29_TimerIds(inflight') = C29_TimerIds(inflight)
          /\ \A t \in inflight' : t.unmounted
    /\ \A t \in inflight :
          t.phase = "scheduled" => \E u \in inflight' : u.id = t.id

C29_DelayedRereadSurvivesTeardown == [][C29_Step]_vars

\* no instance is mounted, no subscription is left, and the last thing that
\* happened to the hook is a re-read run by the timer of a torn-down instance
C29_Witness ==
    /\ ~mounted
    /\ appSubs = 0
    /\ dimSubs = 0
    /\ call.fn = "refreshFontScale"
    /\ call.via = "timer"
    /\ call.unmounted
    /\ ret.ok

====
